---- MODULE Spec2Model ----
(***************************************************************************)
(* A model of the nnnoiseless frame pipeline (src/src/lib.rs and           *)
(* src/src/denoise.rs).                                                    *)
(*                                                                         *)
(* Numbers.  The program computes in f32/f64.  The model computes in       *)
(* fixed point: an integer v stands for the real number v / Q.  Arrays are *)
(* functions on 0..n-1, indexed as in the source.                          *)
(***************************************************************************)
EXTENDS Integers, Sequences, FiniteSets, TLC

(* ---------------------------------------------------------------------- *)
(* Program constants (lib.rs:445-462)                                      *)
(* ---------------------------------------------------------------------- *)
FRAME_SIZE_SHIFT == 2
FRAME_SIZE == 120 * (2 ^ FRAME_SIZE_SHIFT)
WINDOW_SIZE == 2 * FRAME_SIZE
FREQ_SIZE == FRAME_SIZE + 1
PITCH_MIN_PERIOD == 60
PITCH_MAX_PERIOD == 768
PITCH_FRAME_SIZE == 960
PITCH_BUF_SIZE == PITCH_MAX_PERIOD + PITCH_FRAME_SIZE
NB_BANDS == 22
CEPS_MEM == 8
NB_DELTA_CEPS == 6
NB_FEATURES == NB_BANDS + 3 * NB_DELTA_CEPS + 2
EBAND_5MS ==
  [i \in 0..21 |->
     <<0, 1, 2, 3, 4, 5, 6, 7, 8, 10, 12, 14, 16, 20, 24, 28, 34, 40, 48, 60, 78, 100>>[i + 1]]

(* ---------------------------------------------------------------------- *)
(* Fixed-point rendering of the f32 arithmetic                             *)
(* ---------------------------------------------------------------------- *)
Q == 10 * 10 * 10

(* An array value evaluated once (element by element), then only read.     *)
Arr(f) == CHOOSE g \in {f} : g = f

(* a * b / Q without leaving the machine integers on the way: the larger   *)
(* factor is split into its whole part and its fraction.                   *)
FMulSplit(a, b) == (a \div Q) * b + ((a % Q) * b) \div Q
FMul(a, b) ==
  IF a = 0 \/ b = 0 THEN 0
  ELSE IF -46000 < a /\ a < 46000 /\ -46000 < b /\ b < 46000 THEN (a * b) \div Q
  ELSE IF (IF a < 0 THEN -a ELSE a) >= (IF b < 0 THEN -b ELSE b) THEN FMulSplit(a, b)
  ELSE FMulSplit(b, a)

(* a / b, likewise.  A division by zero gives the infinities of f32 as    *)
(* the largest magnitude, and 0 for 0 / 0 (a NaN, which max and min drop). *)
FDivPos(a, b) == (a \div b) * Q + ((a % b) * Q) \div b
FDiv(a, b) ==
  IF b > 0 THEN FDivPos(a, b)
  ELSE IF b < 0 THEN FDivPos(-a, -b)
  ELSE IF a > 0 THEN 2000000000 ELSE IF a < 0 THEN -2000000000 ELSE 0
FMax(a, b) == IF a >= b THEN a ELSE b
FMin(a, b) == IF a <= b THEN a ELSE b
FAbs(a) == IF a < 0 THEN -a ELSE a

(* floor(sqrt(n)) for 0 <= n < 2^31, by bisection on lo..hi                *)
RECURSIVE ISqrtIn(_, _, _)
ISqrtIn(n, lo, hi) ==
  IF lo >= hi THEN lo
  ELSE LET mid == (lo + hi + 1) \div 2
       IN IF mid * mid <= n THEN ISqrtIn(n, mid, hi) ELSE ISqrtIn(n, lo, mid - 1)
ISqrt(n) == ISqrtIn(n, 0, FMin(n, 46340))

(* f32::sqrt: sqrt(a/Q) in units of 1/Q.  Above 2*10^6 units the argument  *)
(* is first scaled by 1/100 so that the product stays a machine integer.   *)
FSqrt(a) ==
  IF a <= 0 THEN 0
  ELSE IF a <= 2000000 THEN ISqrt(a * Q)
  ELSE 10 * ISqrt((a \div 100) * Q)

(* Sum of f[lo..hi] (0 when the range is empty), halving the range.        *)
RECURSIVE SumFn(_, _, _)
SumFn(f, lo, hi) ==
  IF lo > hi THEN 0
  ELSE IF lo = hi THEN f[lo]
  ELSE LET mid == (lo + hi) \div 2 IN SumFn(f, lo, mid) + SumFn(f, mid + 1, hi)

(* ---------------------------------------------------------------------- *)
(* State                                                                   *)
(* ---------------------------------------------------------------------- *)
VARIABLES
  band_e,     \* band operators: the 22 band values handed to interp_band_gain
  band_x,     \* band operators: the 481-bin spectrum under construction
  band_out,   \* band operators: the 22 values compute_band_corr returned
  band_pc,    \* band operators: "start" -> "interp" -> "corr"
  COMMON,     \* the static OnceCell<CommonState>: None, or the published value
  tpc,        \* per thread: where it stands inside common()
  tlocal,     \* per thread: the CommonState it is building on its stack
  tret,       \* per thread: what its last completed call of common() returned
  tcalls,     \* per thread: calls of common() begun
  published,  \* the threads whose COMMON.set stored a value, in order
  ds,         \* per stream: its DenoiseState
  hist,       \* per stream: the calls of process_frame made on it, in order
  outbuf,     \* per stream: the caller's output slice after the last call
  outs,       \* per stream: the output frame, the value and the cepstrum (None on a
              \* silent frame) of every call, in order
  ret,        \* per stream: what the last call returned (None: no call, or a panic)
  panic,      \* per stream: "no", or the function in which the last call panicked
  seen        \* per stream: the intermediate values of the last call

band_vars == <<band_e, band_x, band_out, band_pc>>
thread_vars == <<tpc, tlocal, tret, tcalls, published>>
common_vars == <<COMMON, tpc, tlocal, tret, tcalls, published>>
stream_vars == <<ds, hist, outbuf, outs, ret, panic, seen>>
vars == <<band_e, band_x, band_out, band_pc, COMMON, tpc, tlocal, tret, tcalls, published,
          ds, hist, outbuf, outs, ret, panic, seen>>

(* An Option<T> is the empty set (None) or a singleton (Some).             *)
None == {}
Some(v) == {v}
Unwrap(o) == CHOOSE v \in o : TRUE

(* ---------------------------------------------------------------------- *)
(* Common tables (lib.rs:499-536)                                          *)
(* ---------------------------------------------------------------------- *)
(* sin(pi/2 * u) for 0 <= u <= 1, as the rational 4t / (5 - t) with        *)
(* t = u(2 - u) (Bhaskara's approximation of the f64 sine).                *)
FSinHalfPi(u) ==
  LET t == u * (2 * Q - u) IN (t * Q) \div ((5 * Q * Q - t) \div 4)

(* cos(n * pi / 44) for a natural n, as (44^2 - 4m^2) / (44^2 + m^2) on    *)
(* the first quadrant and by symmetry elsewhere.                           *)
FCosPi44(n) ==
  LET r == n % 88
      m == IF r > 44 THEN 88 - r ELSE r
      c(k) == (Q * (44 * 44 - 4 * k * k)) \div (44 * 44 + k * k)
  IN IF m <= 22 THEN c(m) ELSE -c(44 - m)

(* lib.rs:510-515 *)
common_window ==
  Arr([k \in 0..(WINDOW_SIZE - 1) |->
         LET i == IF k < FRAME_SIZE THEN k ELSE WINDOW_SIZE - k - 1
             sin == FSinHalfPi(((2 * i + 1) * Q) \div (2 * FRAME_SIZE))
         IN FSinHalfPi(FMul(sin, sin))])

(* lib.rs:517-526 *)
common_dct_table ==
  Arr([k \in 0..(NB_BANDS * NB_BANDS - 1) |->
         LET i == k \div NB_BANDS
             j == k % NB_BANDS
             c == FCosPi44((2 * i + 1) * j)
         IN IF j = 0 THEN FMul(c, FSqrt(Q \div 2)) ELSE c])

ZeroWindow == [k \in 0..(WINDOW_SIZE - 1) |-> 0]
ZeroDct == [k \in 0..(NB_BANDS * NB_BANDS - 1) |-> 0]

(* The locals of common() before any of them is computed.                  *)
CommonLocalInit == [window |-> ZeroWindow, dct_table |-> ZeroDct, fft |-> 0]

(* lib.rs:529-533: the CommonState moved into the cell.  built_by names the *)
(* call that constructed it (two constructions hold equal tables).         *)
CommonState(l, t) ==
  [window |-> l.window, dct_table |-> l.dct_table, fft |-> l.fft, built_by |-> t]

(* A CommonState whose three fields are all initialised.                   *)
FullyBuilt(c) ==
  /\ c.window = common_window
  /\ c.dct_table = common_dct_table
  /\ c.fft = WINDOW_SIZE

(* A cell whose set stores unconditionally, as a plain static would.       *)
OnceCell_set_Overwrite(cell, v) == [cell |-> Some(v), ok |-> TRUE]

(* OnceCell::set as used at lib.rs:529: stores v if the cell is empty,     *)
(* and otherwise leaves the cell alone and hands v back as an Err.         *)
OnceCell_set(cell, v) ==
  IF cell = None THEN [cell |-> Some(v), ok |-> TRUE] ELSE [cell |-> cell, ok |-> FALSE]

(* OnceCell::get: None, or the whole stored value.                         *)
OnceCell_get(cell) == cell

NThreads == 2
MaxCalls == 2
Threads == 1..NThreads

CommonInit ==
  /\ COMMON = None
  /\ tpc = [t \in Threads |-> "idle"]
  /\ tlocal = [t \in Threads |-> CommonLocalInit]
  /\ tret = [t \in Threads |-> None]
  /\ tcalls = [t \in Threads |-> 0]
  /\ published = <<>>

(* lib.rs:508: if COMMON.get().is_none()                                   *)
CommonCall(t) ==
  /\ tpc[t] \in {"idle", "done"}
  /\ tcalls[t] < MaxCalls
  /\ tcalls' = [tcalls EXCEPT ![t] = @ + 1]
  /\ tlocal' = [tlocal EXCEPT ![t] = CommonLocalInit]
  /\ tpc' = [tpc EXCEPT ![t] = IF OnceCell_get(COMMON) = None THEN "window" ELSE "get"]
  /\ UNCHANGED <<COMMON, tret, published>>
  /\ UNCHANGED <<band_vars, stream_vars>>

(* lib.rs:510-515 *)
CommonBuildWindow(t) ==
  /\ tpc[t] = "window"
  /\ tlocal' = [tlocal EXCEPT ![t].window = common_window]
  /\ tpc' = [tpc EXCEPT ![t] = "dct"]
  /\ UNCHANGED <<COMMON, tret, tcalls, published>>
  /\ UNCHANGED <<band_vars, stream_vars>>

(* lib.rs:517-526 *)
CommonBuildDct(t) ==
  /\ tpc[t] = "dct"
  /\ tlocal' = [tlocal EXCEPT ![t].dct_table = common_dct_table]
  /\ tpc' = [tpc EXCEPT ![t] = "fft"]
  /\ UNCHANGED <<COMMON, tret, tcalls, published>>
  /\ UNCHANGED <<band_vars, stream_vars>>

(* lib.rs:528 *)
CommonBuildFft(t) ==
  /\ tpc[t] = "fft"
  /\ tlocal' = [tlocal EXCEPT ![t].fft = WINDOW_SIZE]
  /\ tpc' = [tpc EXCEPT ![t] = "set"]
  /\ UNCHANGED <<COMMON, tret, tcalls, published>>
  /\ UNCHANGED <<band_vars, stream_vars>>

(* lib.rs:529-533: let _ = COMMON.set(CommonState { window, dct_table, fft }) *)
CommonSet(t) ==
  /\ tpc[t] = "set"
  /\ \E r \in {OnceCell_set(COMMON, CommonState(tlocal[t], t))} :
       /\ COMMON' = r.cell
       /\ published' = IF r.ok THEN Append(published, t) ELSE published
  /\ tpc' = [tpc EXCEPT ![t] = "get"]
  /\ UNCHANGED <<tlocal, tret, tcalls>>
  /\ UNCHANGED <<band_vars, stream_vars>>

(* lib.rs:535: COMMON.get().unwrap()                                       *)
CommonGet(t) ==
  /\ tpc[t] = "get"
  /\ tret' = [tret EXCEPT ![t] = OnceCell_get(COMMON)]
  /\ tpc' = [tpc EXCEPT ![t] = IF OnceCell_get(COMMON) = None THEN "panic" ELSE "done"]
  /\ UNCHANGED <<COMMON, tlocal, tcalls, published>>
  /\ UNCHANGED <<band_vars, stream_vars>>

CommonNext ==
  \E t \in Threads :
    \/ CommonCall(t)
    \/ CommonBuildWindow(t)
    \/ CommonBuildDct(t)
    \/ CommonBuildFft(t)
    \/ CommonSet(t)
    \/ CommonGet(t)

(* ---------------------------------------------------------------------- *)
(* Arrays and slices                                                       *)
(* ---------------------------------------------------------------------- *)
Zeros(n) == [i \in 0..(n - 1) |-> 0]
ALen(a) == Cardinality(DOMAIN a)

(* ---------------------------------------------------------------------- *)
(* Band operators (lib.rs:465-497)                                         *)
(* ---------------------------------------------------------------------- *)
Cplx(re, im) == [re |-> re, im |-> im]
CZero == Cplx(0, 0)

band_size(i) == (EBAND_5MS[i + 1] - EBAND_5MS[i]) * (2 ^ FRAME_SIZE_SHIFT)
band_lo(i) == EBAND_5MS[i] * (2 ^ FRAME_SIZE_SHIFT)
band_frac(i, j) == FDiv(j * Q, band_size(i) * Q)

(* x[idx].re * p[idx].re + x[idx].im * p[idx].im                           *)
band_corr_at(x, p, idx) == FMul(x[idx].re, p[idx].re) + FMul(x[idx].im, p[idx].im)

(* What the loop over band i adds to out[i] and to out[i + 1].             *)
band_corr_own(x, p, i) ==
  SumFn([j \in 0..(band_size(i) - 1) |->
           FMul(Q - band_frac(i, j), band_corr_at(x, p, band_lo(i) + j))],
        0, band_size(i) - 1)
band_corr_next(x, p, i) ==
  SumFn([j \in 0..(band_size(i) - 1) |->
           FMul(band_frac(i, j), band_corr_at(x, p, band_lo(i) + j))],
        0, band_size(i) - 1)

(* lib.rs:469-479: out[b] after the loop over the bands                    *)
band_corr_sums(x, p) ==
  Arr([b \in 0..(NB_BANDS - 1) |->
         (IF b <= NB_BANDS - 2 THEN band_corr_own(x, p, b) ELSE 0)
         + (IF b >= 1 THEN band_corr_next(x, p, b - 1) ELSE 0)])

(* The doubling of the two edge bands, lib.rs:480-481, left out.           *)
compute_band_corr_NoEdge(x, p) == band_corr_sums(x, p)

(* lib.rs:465-482 *)
compute_band_corr(x, p) ==
  LET edges_doubled(acc) ==
        Arr([b \in 0..(NB_BANDS - 1) |->
               IF b = 0 \/ b = NB_BANDS - 1 THEN 2 * acc[b] ELSE acc[b]])
  IN edges_doubled(band_corr_sums(x, p))

(* The band whose pass of the outer loop of interp_band_gain writes bin    *)
(* idx (the bands do not overlap), or NB_BANDS - 1 when no pass writes it. *)
band_of ==
  Arr([idx \in 0..(FREQ_SIZE - 1) |->
         IF idx >= band_lo(NB_BANDS - 1) THEN NB_BANDS - 1
         ELSE CHOOSE i \in 0..(NB_BANDS - 2) : band_lo(i) <= idx /\ idx < band_lo(i) + band_size(i)])

(* lib.rs:489-496 alone: the bins no band writes keep what out held        *)
interp_band_gain_NoZero(out, band) ==
  Arr([idx \in DOMAIN out |->
         LET i == band_of[idx]
         IN IF i = NB_BANDS - 1 THEN out[idx]
            ELSE LET frac == band_frac(i, idx - band_lo(i))
                 IN FMul(Q - frac, band[i]) + FMul(frac, band[i + 1])])

(* lib.rs:484-497: out is zeroed, then each band writes its bins.          *)
interp_band_gain(out, band) ==
  Arr([idx \in DOMAIN out |->
         LET i == band_of[idx]
         IN IF i = NB_BANDS - 1 THEN 0
            ELSE LET frac == band_frac(i, idx - band_lo(i))
                 IN FMul(Q - frac, band[i]) + FMul(frac, band[i + 1])])

(* ---------------------------------------------------------------------- *)
(* Windowing and the transforms (lib.rs:561-592)                           *)
(* ---------------------------------------------------------------------- *)
(* lib.rs:568-573, with c = common()                                       *)
apply_window_in_place(c, xs) ==
  Arr([i \in DOMAIN xs |-> FMul(xs[i], c.window[i])])

(* fft::RealFft of length WINDOW_SIZE.  fft.rs is not among the sources;   *)
(* the pipeline uses of it that forward maps 960 reals to 481 bins and     *)
(* inverse maps 481 bins to 960 reals, both linearly, and that inverse     *)
(* undoes forward up to the factor WINDOW_SIZE.  The model takes the       *)
(* simplest such pair, one butterfly layer over the two halves of the      *)
(* buffer, in place of the discrete Fourier transform.                     *)
RealFft_forward(input) ==
  Arr([k \in 0..(FREQ_SIZE - 1) |->
         IF k < FRAME_SIZE
         THEN Cplx(FRAME_SIZE * (input[k] + input[k + FRAME_SIZE]),
                   FRAME_SIZE * (input[k] - input[k + FRAME_SIZE]))
         ELSE CZero])
RealFft_inverse(input) ==
  Arr([k \in 0..(WINDOW_SIZE - 1) |->
         IF k < FRAME_SIZE THEN input[k].re + input[k].im
         ELSE input[k - FRAME_SIZE].re - input[k - FRAME_SIZE].im])

(* lib.rs:575-586: the forward transform, normalised by 1 / WINDOW_SIZE    *)
forward_transform(input) ==
  LET normalised(output) ==
        Arr([k \in DOMAIN output |->
               Cplx(output[k].re \div WINDOW_SIZE, output[k].im \div WINDOW_SIZE)])
  IN normalised(RealFft_forward(input))

(* lib.rs:588-592 *)
inverse_transform(input) == RealFft_inverse(input)

(* ---------------------------------------------------------------------- *)
(* biquad (denoise.rs:240-248) with b = [-2, 1], a = [-1.99599, 0.99600]   *)
(* ---------------------------------------------------------------------- *)
(* denoise.rs:242-246 with a filter that adds a constant to its output     *)
biquad_step_Bias(st, x) ==
  [i |-> st.i + 1, mem |-> st.mem, y |-> Append(st.y, x[st.i] + st.mem[0] + 1)]

(* denoise.rs:242-246.  The loop state: the index i, mem, and y[0..i-1] as *)
(* a sequence.                                                             *)
biquad_step(st, x) ==
  LET xi == x[st.i]
      yi == xi + st.mem[0]
      m0 == st.mem[1] + ((-2) * xi + 2 * yi - FMul(yi, 401) \div 100)
      m1 == xi - yi + FMul(yi, 4)
  IN [i |-> st.i + 1, mem |-> [k \in 0..1 |-> IF k = 0 THEN m0 ELSE m1],
      y |-> Append(st.y, yi)]

RECURSIVE biquad_seg(_, _, _)
biquad_seg(stop, st, x) ==
  IF st.i >= stop THEN st ELSE biquad_seg(stop, biquad_step(st, x), x)

BiquadBlock == 24
RECURSIVE biquad_loop(_, _, _)
biquad_loop(stop, st, x) ==
  IF st.i >= stop THEN st
  ELSE biquad_loop(stop, biquad_seg(FMin(stop, st.i + BiquadBlock), st, x), x)

(* y is the caller's array of ny elements; the loop runs over 0..x.len()   *)
(* and panics at the first i that is no index of y.                        *)
biquad(y, mem, x) ==
  LET written(st) ==
        [y |-> Arr([i \in DOMAIN y |-> IF i < st.i THEN st.y[i + 1] ELSE y[i]]),
         mem |-> st.mem,
         panic |-> ALen(x) > ALen(y)]
  IN written(biquad_loop(FMin(ALen(x), ALen(y)), [i |-> 0, mem |-> mem, y |-> <<>>], x))

(* ---------------------------------------------------------------------- *)
(* Pitch analysis (lib.rs:10-443).  A slice &a[off..] is passed as the     *)
(* array a and the offset off.                                             *)
(* ---------------------------------------------------------------------- *)
(* lib.rs:10-29.  The four partial sums of the source add up the same      *)
(* products; in fixed point the order of the additions does not matter.    *)
RECURSIVE inner_prod_range(_, _, _, _, _, _)
inner_prod_range(xs, xoff, ys, yoff, lo, hi) ==
  IF lo = hi THEN FMul(xs[xoff + lo], ys[yoff + lo])
  ELSE LET mid == (lo + hi) \div 2
       IN inner_prod_range(xs, xoff, ys, yoff, lo, mid)
          + inner_prod_range(xs, xoff, ys, yoff, mid + 1, hi)
inner_prod(xs, xoff, ys, yoff, n) ==
  IF n = 0 THEN 0 ELSE inner_prod_range(xs, xoff, ys, yoff, 0, n - 1)

(* lib.rs:81-148: xcorr[i] = sum over j < xlen of xs[xoff + j] * ys[i + j] *)
pitch_xcorr(xs, xoff, xlen, ys, nout) ==
  Arr([i \in 0..(nout - 1) |-> inner_prod(xs, xoff, ys, i, xlen)])

(* lib.rs:42-77.  st = [i, lpc, error, done]                               *)
lpc_step(st, ac) ==
  LET i == st.i
      rr == SumFn([j \in 0..(i - 1) |-> FMul(st.lpc[j], ac[i - j])], 0, i - 1) + ac[i + 1]
      r == FDiv(-rr, st.error)
      \* the pairs (j, i - 1 - j), j < (i + 1) / 2, cover every index below i
      l2 == [j \in DOMAIN st.lpc |->
               IF j = i THEN r
               ELSE IF j < i THEN st.lpc[j] + FMul(r, st.lpc[i - 1 - j])
               ELSE st.lpc[j]]
      error == st.error - FMul(FMul(r, r), st.error)
  IN [i |-> i + 1, lpc |-> Arr(l2), error |-> error, done |-> error < FMul(1, ac[0])]

RECURSIVE lpc_loop(_, _, _)
lpc_loop(st, ac, p) ==
  IF st.i >= p \/ st.done THEN st.lpc ELSE lpc_loop(lpc_step(st, ac), ac, p)

lpc(p, ac) ==
  IF ac[0] = 0 THEN Zeros(p)
  ELSE lpc_loop([i |-> 0, lpc |-> Zeros(p), error |-> ac[0], done |-> FALSE], ac, p)

(* lib.rs:251-273: mem0..mem4 are the five inputs before xs[i]             *)
fir5_in_place(xs, num) ==
  Arr([i \in DOMAIN xs |->
         xs[i] + SumFn([k \in 0..4 |-> IF i - 1 - k >= 0 THEN FMul(num[k], xs[i - 1 - k]) ELSE 0],
                       0, 4)])

(* lib.rs:277-290 *)
celt_autocorr(x, nac) ==
  LET n == ALen(x)
      fast_n == n - (nac - 1)
      \* lib.rs:284-289: the products the fast part left out
      completed(ac) ==
        Arr([k \in 0..(nac - 1) |->
               ac[k] + SumFn([i \in (k + fast_n)..(n - 1) |-> FMul(x[i], x[i - k])],
                             k + fast_n, n - 1)])
  IN completed(pitch_xcorr(x, 0, fast_n, x, nac))

(* lib.rs:292-325 *)
pitch_downsample(x) ==
  LET \* lib.rs:317-324: a zero is added, then the filter runs over x_lp
      filtered(x_lp, lpc_coeffs) ==
        fir5_in_place(x_lp,
                      Arr([i \in 0..4 |->
                             (IF i < 4 THEN lpc_coeffs[i] ELSE 0)
                             + (IF i = 0 THEN 800 ELSE FMul(800, lpc_coeffs[i - 1]))]))
      \* lib.rs:311-316: lpc_coeffs[i] *= 0.9^(i + 1)
      damped(x_lp, lpc1) ==
        filtered(x_lp, Arr([i \in 0..3 |-> FMul(lpc1[i], <<900, 810, 729, 656>>[i + 1])]))
      \* lib.rs:304-310: the noise floor and the lag window, then lpc
      windowed(x_lp, ac) ==
        damped(x_lp, lpc(4, Arr([i \in 0..4 |->
                                   IF i = 0 THEN ac[0] + ac[0] \div 10000
                                   ELSE ac[i] - FMul(FMul(ac[i], 8 * i), 8 * i)])))
      \* lib.rs:302
      halved(x_lp) == windowed(x_lp, celt_autocorr(x_lp, 5))
  IN \* lib.rs:297-300
     halved(Arr([i \in 0..(ALen(x) \div 2 - 1) |->
                   IF i = 0 THEN (x[1] \div 2 + x[0]) \div 2
                   ELSE ((x[2 * i - 1] + x[2 * i + 1]) \div 2 + x[2 * i]) \div 2]))

(* lib.rs:157-190.  st = the loop variables and the index i.               *)
find_best_pitch_step(st, xcorr, ys, len) ==
  LET i == st.i
      corr == xcorr[i]
      num == FMul(corr, corr)
      second == corr > 0 /\ FMul(num, st.second_best_den) > FMul(st.second_best_num, st.y_sq_norm)
      best == second /\ FMul(num, st.best_den) > FMul(st.best_num, st.y_sq_norm)
      norm == st.y_sq_norm + FMul(ys[i + len], ys[i + len]) - FMul(ys[i], ys[i])
  IN [i |-> i + 1,
      best_num |-> IF best THEN num ELSE st.best_num,
      best_den |-> IF best THEN st.y_sq_norm ELSE st.best_den,
      best_pitch |-> IF best THEN i ELSE st.best_pitch,
      second_best_num |-> IF best THEN st.best_num ELSE IF second THEN num ELSE st.second_best_num,
      second_best_den |-> IF best THEN st.best_den
                          ELSE IF second THEN st.y_sq_norm ELSE st.second_best_den,
      second_best_pitch |-> IF best THEN st.best_pitch
                            ELSE IF second THEN i ELSE st.second_best_pitch,
      y_sq_norm |-> FMax(norm, Q)]

RECURSIVE find_best_pitch_seg(_, _, _, _, _)
find_best_pitch_seg(stop, st, xcorr, ys, len) ==
  IF st.i >= stop THEN st
  ELSE find_best_pitch_seg(stop, find_best_pitch_step(st, xcorr, ys, len), xcorr, ys, len)

PitchBlock == 21
RECURSIVE find_best_pitch_loop(_, _, _, _, _)
find_best_pitch_loop(stop, st, xcorr, ys, len) ==
  IF st.i >= stop THEN st
  ELSE find_best_pitch_loop(
         stop, find_best_pitch_seg(FMin(stop, st.i + PitchBlock), st, xcorr, ys, len),
         xcorr, ys, len)

(* lib.rs:157-190: the loop variables after the loop; best_pitch and       *)
(* second_best_pitch are the pair returned                                 *)
find_best_pitch(xcorr, ys, len) ==
  find_best_pitch_loop(
    ALen(xcorr),
    [i |-> 0, best_num |-> -Q, second_best_num |-> -Q, best_den |-> 0,
     second_best_den |-> 0, best_pitch |-> 0, second_best_pitch |-> 1,
     y_sq_norm |-> Q + inner_prod(ys, 0, ys, 0, len)],
    xcorr, ys, len)

(* lib.rs:234-247 and 431-437: the pseudo-interpolation offset of three    *)
(* neighbouring correlations                                               *)
interp_offset(a, b, c) ==
  IF c - a > FMul(700, b - a) THEN 1
  ELSE IF a - c > FMul(700, b - c) THEN -1
  ELSE 0

(* lib.rs:193-249 with x_lp = &y[xoff..].  The scratch slices x_lp4 and    *)
(* y_lp4 hold len / 4 and (len + max_pitch) / 4 elements.                  *)
pitch_search(y, xoff, len, max_pitch) ==
  LET \* lib.rs:233-248
      interpolated(xcorr, best_pitch) ==
        2 * best_pitch
        - (IF best_pitch > 0 /\ best_pitch < max_pitch \div 2 - 1
           THEN interp_offset(xcorr[best_pitch - 1], xcorr[best_pitch], xcorr[best_pitch + 1])
           ELSE 0)
      \* lib.rs:231
      fine(xcorr) == interpolated(xcorr, find_best_pitch(xcorr, y, len \div 2).best_pitch)
      \* lib.rs:221-229
      coarse(found) ==
        fine(Arr([i \in 0..(max_pitch \div 2 - 1) |->
                    IF FAbs(i - 2 * found.best_pitch) > 2
                       /\ FAbs(i - 2 * found.second_best_pitch) > 2
                    THEN 0
                    ELSE FMax(inner_prod(y, xoff, y, i, len \div 2), -Q)]))
      \* lib.rs:216-219
      decimated(x_lp4, y_lp4) ==
        coarse(find_best_pitch(pitch_xcorr(x_lp4, 0, len \div 4, y_lp4, max_pitch \div 4),
                               y_lp4, len \div 4))
  IN \* lib.rs:210-215
     decimated(Arr([j \in 0..(len \div 4 - 1) |-> y[xoff + 2 * j]]),
               Arr([j \in 0..((len + max_pitch) \div 4 - 1) |-> y[2 * j]]))

(* lib.rs:203: let mut xcorr = vec![0.0; max_pitch / 2].  The heap blocks   *)
(* a call of pitch_search asks the allocator for, as their lengths in      *)
(* f32s; a Vec of no elements asks for none.                               *)
pitch_search_heap(max_pitch) ==
  IF max_pitch \div 2 > 0 THEN <<max_pitch \div 2>> ELSE <<>>

(* lib.rs:327-329 *)
pitch_gain(xy, xx, yy) == FDiv(xy, FSqrt(Q + FMul(xx, yy)))

(* lib.rs:331 *)
SECOND_CHECK ==
  [k \in 0..15 |-> <<0, 0, 3, 2, 3, 2, 5, 2, 3, 2, 3, 2, 5, 2, 3, 2>>[k + 1]]

(* lib.rs:360-364: yy_lookup[0..i-1] as a sequence, with the running yy    *)
yy_lookup_step(st, x, max_period, n) ==
  LET yy == st.yy + FMul(x[max_period - st.i], x[max_period - st.i])
                  - FMul(x[max_period + n - st.i], x[max_period + n - st.i])
  IN [i |-> st.i + 1, yy |-> yy, look |-> Append(st.look, FMax(yy, 0))]

RECURSIVE yy_lookup_seg(_, _, _, _, _)
yy_lookup_seg(stop, st, x, max_period, n) ==
  IF st.i >= stop THEN st
  ELSE yy_lookup_seg(stop, yy_lookup_step(st, x, max_period, n), x, max_period, n)

RECURSIVE yy_lookup_loop(_, _, _, _, _)
yy_lookup_loop(stop, st, x, max_period, n) ==
  IF st.i >= stop THEN st
  ELSE yy_lookup_loop(stop, yy_lookup_seg(FMin(stop, st.i + PitchBlock), st, x, max_period, n),
                      x, max_period, n)

yy_lookup_table(x, xx, max_period, n) ==
  LET table(st) == Arr([i \in 0..max_period |-> st.look[i + 1]])
  IN table(yy_lookup_loop(max_period + 1, [i |-> 1, yy |-> xx, look |-> <<xx>>],
                          x, max_period, n))

(* lib.rs:405-409 with the two tests in the other order                   *)
doubling_branch_NarrowFirst(t1, min_period) ==
  IF t1 < 2 * min_period THEN 2 ELSE IF t1 < 3 * min_period THEN 1 ELSE 3

(* lib.rs:405-409: which of the three arms of the if gives thresh          *)
doubling_branch(t1, min_period) ==
  IF t1 < 3 * min_period THEN 1 ELSE IF t1 < 2 * min_period THEN 2 ELSE 3

(* lib.rs:405-411 *)
doubling_thresh(t1, min_period, g0, cont) ==
  LET arm == doubling_branch(t1, min_period)
  IN IF arm = 1 THEN FMax(FMul(850, g0) - cont, 400)
     ELSE IF arm = 2 THEN FMax(FMul(900, g0) - cont, 500)
     ELSE FMax(FMul(700, g0) - cont, 300)

(* lib.rs:374-418: one pass of the loop over k; c holds what the passes    *)
(* share, st = [k, t, g, best_xy, best_yy, stop, trace]; trace lists, for  *)
(* the claims, the candidates the passes weighed                           *)
doubling_step(st, c) ==
  LET k == st.k
      t1 == (2 * c.t0 + k) \div (2 * k)
      t1b == IF k = 2 THEN (IF t1 + c.t0 > c.max_period THEN c.t0 ELSE c.t0 + t1)
             ELSE (2 * SECOND_CHECK[k] * c.t0 + k) \div (2 * k)
      cont == IF FAbs(t1 - c.prev_period) <= 1 THEN c.prev_gain
              ELSE IF FAbs(t1 - c.prev_period) <= 2 /\ 5 * k * k < c.t0 THEN c.prev_gain \div 2
              ELSE 0
      thresh == doubling_thresh(t1, c.min_period, c.g0, cont)
      weighed == [k |-> k, t1 |-> t1, g0 |-> c.g0, cont |-> cont, thresh |-> thresh,
                  arm |-> doubling_branch(t1, c.min_period)]
      \* lib.rs:412-417
      compared(xy, yy, g1) ==
        IF g1 > thresh
        THEN [k |-> k + 1, t |-> t1, g |-> g1, best_xy |-> xy, best_yy |-> yy, stop |-> FALSE,
              trace |-> Append(st.trace, weighed)]
        ELSE [st EXCEPT !.k = k + 1, !.trace = Append(@, weighed)]
      \* lib.rs:394
      correlated(xy, yy) == compared(xy, yy, pitch_gain(xy, c.xx, yy))
  IN IF t1 < c.min_period THEN [st EXCEPT !.stop = TRUE]
     ELSE \* lib.rs:389-392
          correlated((inner_prod(c.x, c.max_period, c.x, c.max_period - t1, c.n)
                      + inner_prod(c.x, c.max_period, c.x, c.max_period - t1b, c.n)) \div 2,
                     (c.yy_lookup[t1] + c.yy_lookup[t1b]) \div 2)

RECURSIVE doubling_loop(_, _)
doubling_loop(st, c) ==
  IF st.k > 15 \/ st.stop THEN st ELSE doubling_loop(doubling_step(st, c), c)

(* lib.rs:440 with the offset subtracted, as pitch_search does at 248      *)
doubling_period_Minus(t, offset, init_min_period) ==
  IF 2 * t - offset < 0 THEN 2147483647 ELSE FMax(2 * t - offset, init_min_period)

(* lib.rs:440: (2 * t).wrapping_add(offset as usize).max(init_min_period)  *)
(* in usize; a sum below zero wraps to the top of the usize range.         *)
doubling_period_NoFloor(t, offset, init_min_period) ==
  IF 2 * t + offset < 0 THEN 2147483647 ELSE 2 * t + offset

doubling_period(t, offset, init_min_period) ==
  IF 2 * t + offset < 0 THEN 2147483647 ELSE FMax(2 * t + offset, init_min_period)

(* lib.rs:334-443 *)
remove_doubling(x, max_period0, min_period0, n0, t00, prev_period0, prev_gain) ==
  LET init_min_period == min_period0
      min_period == min_period0 \div 2
      max_period == max_period0 \div 2
      prev_period == prev_period0 \div 2
      n == n0 \div 2
      t0 == FMin(t00 \div 2, max_period - 1)
      \* lib.rs:420-425 and 439-442
      interpolated(st, xcorr, offset) ==
        LET best_xy == FMax(st.best_xy, 0)
            pg == IF st.best_yy <= best_xy THEN Q ELSE FDiv(best_xy, st.best_yy + Q)
        IN [period |-> doubling_period(st.t, offset, init_min_period),
            gain |-> FMin(pg, st.g),
            t |-> st.t, offset |-> offset, xcorr |-> xcorr, trace |-> st.trace]
      \* lib.rs:431-437
      refined(st, xcorr) == interpolated(st, xcorr, interp_offset(xcorr[0], xcorr[1], xcorr[2]))
      \* lib.rs:427-430
      searched(st) ==
        refined(st, Arr([k \in 0..2 |->
                           inner_prod(x, max_period, x, max_period - (st.t + k - 1), n)]))
      \* lib.rs:374-418
      scored(xx, xy, yy_lookup, g0) ==
        searched(doubling_loop(
                   [k |-> 2, t |-> t0, g |-> g0, best_xy |-> xy, best_yy |-> yy_lookup[t0],
                    stop |-> FALSE, trace |-> <<>>],
                   [x |-> x, max_period |-> max_period, min_period |-> min_period, n |-> n,
                    t0 |-> t0, prev_period |-> prev_period, prev_gain |-> prev_gain,
                    xx |-> xx, g0 |-> g0, yy_lookup |-> yy_lookup]))
      \* lib.rs:366-372
      looked_up(xx, xy, yy_lookup) ==
        scored(xx, xy, yy_lookup, pitch_gain(xy, xx, yy_lookup[t0]))
      \* lib.rs:358-364
      correlated(xx, xy) == looked_up(xx, xy, yy_lookup_table(x, xx, max_period, n))
  IN \* lib.rs:356-357
     correlated(inner_prod(x, max_period, x, max_period, n),
                inner_prod(x, max_period, x, max_period - t0, n))

(* ---------------------------------------------------------------------- *)
(* Features (denoise.rs:82-228)                                            *)
(* ---------------------------------------------------------------------- *)
(* f32::log10 of a > 0: the decade by scaling into [1, 10), the mantissa   *)
(* by interpolating between log10(1), log10(2), ..., log10(10).            *)
Log10Table == [m \in 1..10 |-> <<0, 301, 477, 602, 699, 778, 845, 903, 954, 1000>>[m]]
RECURSIVE FLog10(_)
FLog10(a) ==
  IF a < Q THEN FLog10(a * 10) - Q
  ELSE IF a >= 10 * Q THEN FLog10(a \div 10) + Q
  ELSE LET m == a \div Q
       IN Log10Table[m] + ((Log10Table[m + 1] - Log10Table[m]) * (a - m * Q)) \div Q

(* lib.rs:539-548, with c = common(); sqrt(2 / NB_BANDS) = 0.3015          *)
dct(c, x) ==
  Arr([i \in 0..(NB_BANDS - 1) |->
         FMul(SumFn([j \in 0..(NB_BANDS - 1) |-> FMul(x[j], c.dct_table[j * NB_BANDS + i])],
                    0, NB_BANDS - 1),
              FSqrt((2 * Q) \div NB_BANDS))])

(* denoise.rs:82-94 *)
frame_analysis(c, state, input) ==
  LET \* denoise.rs:89 and 93
      analysed(buf, x) ==
        [state |-> [state EXCEPT !.analysis_mem = Arr([i \in 0..(FRAME_SIZE - 1) |-> input[i]])],
         x |-> x,
         ex |-> compute_band_corr(x, x),
         buf |-> buf]
      \* denoise.rs:91-92
      filled(buf) == analysed(buf, forward_transform(apply_window_in_place(c, buf)))
  IN \* denoise.rs:83-90
     filled(Arr([i \in 0..(WINDOW_SIZE - 1) |->
                   IF i < FRAME_SIZE THEN state.analysis_mem[i] ELSE input[i - FRAME_SIZE]]))

(* denoise.rs:159-167: st = [i, ly, log_max, follow, e], ly a sequence     *)
band_log_step(st, ex) ==
  LET ly == FMax(FMax(FLog10(10 + ex[st.i]), st.log_max - 7 * Q), st.follow - 1500)
  IN [i |-> st.i + 1, ly |-> Append(st.ly, ly), log_max |-> FMax(st.log_max, ly),
      follow |-> FMax(st.follow - 1500, ly), e |-> st.e + ex[st.i]]

RECURSIVE band_log_loop(_, _)
band_log_loop(st, ex) == IF st.i >= NB_BANDS THEN st ELSE band_log_loop(band_log_step(st, ex), ex)

band_log(ex) ==
  LET logged(st) == [ly |-> Arr([i \in 0..(NB_BANDS - 1) |-> st.ly[i + 1]]), e |-> st.e]
  IN logged(band_log_loop([i |-> 0, ly |-> <<>>, log_max |-> -2 * Q, follow |-> -2 * Q,
                           e |-> 0], ex))

(* denoise.rs:179-189 with the wrap left out                               *)
ceps_idx_NoWrap(mem_id, back) == mem_id - back

(* denoise.rs:179-189 *)
ceps_idx(mem_id, back) == IF mem_id < back THEN CEPS_MEM + mem_id - back ELSE mem_id - back

(* denoise.rs:194 left out: mem_id stays where it is                       *)
next_mem_id_NoAdvance(mem_id) == mem_id

(* denoise.rs:194 and 207-209 *)
next_mem_id(mem_id) == IF mem_id + 1 = CEPS_MEM THEN 0 ELSE mem_id + 1

(* denoise.rs:210-225 *)
ceps_dist(mem, i, j) ==
  SumFn([k \in 0..(NB_BANDS - 1) |-> FMul(mem[i][k] - mem[j][k], mem[i][k] - mem[j][k])],
        0, NB_BANDS - 1)
RECURSIVE MinOver(_, _, _)
MinOver(f, lo, hi) == IF lo = hi THEN f[lo] ELSE FMin(f[lo], MinOver(f, lo + 1, hi))
spec_variability(mem) ==
  SumFn([i \in 0..(CEPS_MEM - 1) |->
           MinOver([j \in 0..(CEPS_MEM - 1) |-> IF j = i THEN 2000000000 ELSE ceps_dist(mem, i, j)],
                   0, CEPS_MEM - 1)],
        0, CEPS_MEM - 1)

(* denoise.rs:116-118 alone: the frame put at the end, nothing shifted     *)
pitch_buf_push_NoShift(pitch_buf, input) ==
  Arr([i \in 0..(PITCH_BUF_SIZE - 1) |->
         IF i < PITCH_BUF_SIZE - FRAME_SIZE THEN pitch_buf[i]
         ELSE input[i - (PITCH_BUF_SIZE - FRAME_SIZE)]])

(* denoise.rs:113-118: pitch_buf shifted left by one frame, the frame put *)
(* at its end                                                              *)
pitch_buf_push(pitch_buf, input) ==
  Arr([i \in 0..(PITCH_BUF_SIZE - 1) |->
         IF i < PITCH_BUF_SIZE - FRAME_SIZE THEN pitch_buf[i + FRAME_SIZE]
         ELSE input[i - (PITCH_BUF_SIZE - FRAME_SIZE)]])

(* denoise.rs:120-139: the pitch period of the frame and its gain          *)
frame_pitch(state) ==
  LET \* denoise.rs:121-137
      downsampled(pitch_buf) ==
        remove_doubling(pitch_buf, PITCH_MAX_PERIOD, PITCH_MIN_PERIOD, PITCH_FRAME_SIZE,
                        PITCH_MAX_PERIOD
                        - pitch_search(pitch_buf, PITCH_MAX_PERIOD \div 2, PITCH_FRAME_SIZE,
                                       PITCH_MAX_PERIOD - 3 * PITCH_MIN_PERIOD),
                        state.last_period, state.last_gain)
  IN \* denoise.rs:120
     downsampled(pitch_downsample(state.pitch_buf))

(* denoise.rs:106-139: the heap blocks compute_frame_features asks for.    *)
(* Its own buffers (ly, p_buf, pitch_buf, tmp) are arrays on its stack;    *)
(* of its callees pitch_search builds a Vec.                               *)
frame_features_heap == pitch_search_heap(PITCH_MAX_PERIOD - 3 * PITCH_MIN_PERIOD)

(* denoise.rs:141-150: the spectrum p of the pitch-delayed window, its     *)
(* band energy ep and the normalised band correlation exp with x           *)
pitch_spectrum(c, state, pitch_idx, x, ex) ==
  LET start == PITCH_BUF_SIZE - WINDOW_SIZE - pitch_idx
      \* denoise.rs:148-150
      correlated(p, ep, exp0) ==
        [p |-> p, ep |-> ep,
         exp |-> Arr([i \in 0..(NB_BANDS - 1) |->
                        FDiv(exp0[i], FSqrt(1 + FMul(ex[i], ep[i])))])]
      \* denoise.rs:146-147
      transformed(p) == correlated(p, compute_band_corr(p, p), compute_band_corr(x, p))
  IN \* denoise.rs:141-145
     transformed(forward_transform(apply_window_in_place(c,
                   Arr([i \in 0..(WINDOW_SIZE - 1) |-> state.pitch_buf[start + i]]))))

(* denoise.rs:176-225: the features of a frame that is not silent, and     *)
(* the cepstral ring after it                                              *)
ceps_features(c, state, ly, tail) ==
  LET ceps_0_idx == state.mem_id
      ceps_1_idx == ceps_idx(state.mem_id, 1)
      ceps_2_idx == ceps_idx(state.mem_id, 2)
      \* denoise.rs:194-209 and 225
      derived(ceps, mem, variability) ==
        LET ceps_0 == mem[ceps_0_idx]
            ceps_1 == mem[ceps_1_idx]
            ceps_2 == mem[ceps_2_idx]
        IN [state |-> [state EXCEPT !.cepstral_mem = mem,
                                    !.mem_id = next_mem_id(state.mem_id)],
            ceps |-> ceps,
            features |->
              Arr([i \in 0..(NB_FEATURES - 1) |->
                     IF i < NB_DELTA_CEPS THEN ceps_0[i] + ceps_1[i] + ceps_2[i]
                     ELSE IF i < NB_BANDS THEN ceps[i]
                     ELSE IF i < NB_BANDS + NB_DELTA_CEPS
                          THEN ceps_0[i - NB_BANDS] - ceps_2[i - NB_BANDS]
                     ELSE IF i < NB_BANDS + 2 * NB_DELTA_CEPS
                          THEN ceps_0[i - NB_BANDS - NB_DELTA_CEPS]
                               - 2 * ceps_1[i - NB_BANDS - NB_DELTA_CEPS]
                               + ceps_2[i - NB_BANDS - NB_DELTA_CEPS]
                     ELSE IF i = NB_BANDS + 3 * NB_DELTA_CEPS + 1
                          THEN variability \div CEPS_MEM - 2100
                     ELSE tail[i]])]
      \* denoise.rs:210-224
      stored(ceps, mem) == derived(ceps, mem, spec_variability(mem))
      \* denoise.rs:179-193
      shifted(ceps) == stored(ceps, [state.cepstral_mem EXCEPT ![ceps_0_idx] = ceps])
      \* denoise.rs:177-178
      transformed(d) ==
        shifted(Arr([i \in 0..(NB_BANDS - 1) |->
                       IF i = 0 THEN d[0] - 12 * Q ELSE IF i = 1 THEN d[1] - 4 * Q ELSE d[i]]))
  IN \* denoise.rs:176
     transformed(dct(c, ly))

(* denoise.rs:169, with the gate left open                                 *)
silence_gate_Open(e) == FALSE

(* denoise.rs:169: if e < 0.04                                             *)
silence_gate(e) == e < (4 * Q) \div 100

(* denoise.rs:96-228 *)
compute_frame_features(c, state0, input) ==
  LET \* what the call hands back, and what the claims read of its locals
      handed_back(fa, pitch, ps, bl, state, silence, features, ceps) ==
        [state |-> state, silence |-> silence, features |-> features, ceps |-> ceps,
         buf |-> fa.buf,
         x |-> fa.x, p |-> ps.p, ex |-> fa.ex, ep |-> ps.ep, exp |-> ps.exp,
         e |-> bl.e, pitch_t |-> pitch.t, pitch_offset |-> pitch.offset,
         pitch_xcorr |-> pitch.xcorr, pitch_trace |-> pitch.trace,
         p_start |-> PITCH_BUF_SIZE - WINDOW_SIZE - pitch.period,
         heap |-> frame_features_heap]
      \* denoise.rs:227: return 0
      voiced(fa, pitch, ps, bl, cf) ==
        handed_back(fa, pitch, ps, bl, cf.state, 0, cf.features, Some(cf.ceps))
      \* denoise.rs:169-175: if e < 0.04 { features zeroed; return 1 }
      gated(fa, pitch, state2, ps, tail, bl) ==
        IF silence_gate(bl.e)
        THEN handed_back(fa, pitch, ps, bl, state2, 1, Zeros(NB_FEATURES), None)
        ELSE voiced(fa, pitch, ps, bl, ceps_features(c, state2, bl.ly, tail))
      \* denoise.rs:152-167: the features written before the silence test
      correlated(fa, pitch, state2, ps, tmp) ==
        gated(fa, pitch, state2, ps,
              Arr([i \in 0..(NB_FEATURES - 1) |->
                     IF i = NB_BANDS + 2 * NB_DELTA_CEPS THEN tmp[0] - 1300
                     ELSE IF i = NB_BANDS + 2 * NB_DELTA_CEPS + 1 THEN tmp[1] - 900
                     ELSE IF i >= NB_BANDS + 2 * NB_DELTA_CEPS
                             /\ i < NB_BANDS + 3 * NB_DELTA_CEPS
                          THEN tmp[i - NB_BANDS - 2 * NB_DELTA_CEPS]
                     ELSE IF i = NB_BANDS + 3 * NB_DELTA_CEPS THEN (pitch.period - 300) * 10
                     ELSE 0]),
              band_log(fa.ex))
      \* denoise.rs:151
      delayed(fa, pitch, state2, ps) == correlated(fa, pitch, state2, ps, dct(c, ps.exp))
      \* denoise.rs:141-150
      located(fa, pitch, state2) ==
        delayed(fa, pitch, state2, pitch_spectrum(c, state2, pitch.period, fa.x, fa.ex))
      \* denoise.rs:138-139
      pitched(fa, state1, pitch) ==
        located(fa, pitch, [state1 EXCEPT !.last_period = pitch.period,
                                          !.last_gain = pitch.gain])
      \* denoise.rs:120-137
      pushed(fa, state1) == pitched(fa, state1, frame_pitch(state1))
      \* denoise.rs:113-118
      analysed(fa) ==
        pushed(fa, [fa.state EXCEPT !.pitch_buf = pitch_buf_push(state0.pitch_buf, input)])
  IN \* denoise.rs:112
     analysed(frame_analysis(c, state0, input))

(* ---------------------------------------------------------------------- *)
(* The RNN (rnn.rs and model.rs are not among the sources).  Its contract: *)
(* compute_rnn advances the recurrent state by one step and writes 22      *)
(* gains and one VAD probability, all in [0, 1], as a function of the      *)
(* state, the features and an immutable weight table.  The model takes a   *)
(* one-cell recurrent unit with a clipped-linear activation; weights is    *)
(* the table: [recur, input, bias, slope].                                 *)
(* ---------------------------------------------------------------------- *)
Clip(lo, hi, v) == FMax(lo, FMin(hi, v))

RnnState_new == [h |-> 0]

compute_rnn(weights, rnn, features) ==
  LET stepped(h) ==
        [rnn |-> [h |-> h],
         g |-> Arr([i \in 0..(NB_BANDS - 1) |->
                      Clip(0, Q, weights.bias + h + FMul(weights.slope, features[i]))]),
         vad_prob |-> Clip(0, Q, Q \div 2 + h)]
  IN stepped(Clip(-Q, Q, FMul(weights.recur, rnn.h)
                         + FMul(weights.input, features[0] + features[NB_BANDS])))

(* ---------------------------------------------------------------------- *)
(* Pitch filter, synthesis and process_frame (denoise.rs:230-342)          *)
(* ---------------------------------------------------------------------- *)
CScale(z, a) == Cplx(FMul(z.re, a), FMul(z.im, a))

(* 1e-8 + v, for v >= 0: below the resolution unless v is 0, where it      *)
(* keeps the quotient finite                                               *)
PlusTiny(v) == IF v = 0 THEN 1 ELSE v

(* denoise.rs:250-287 *)
pitch_filter(x, p, ex, ep, exp, g) ==
  LET \* denoise.rs:284-286
      scaled(x1, normf) == Arr([i \in 0..(FREQ_SIZE - 1) |-> CScale(x1[i], normf[i])])
      \* denoise.rs:278-283
      renormalised(x1, new_e) ==
        scaled(x1, interp_band_gain(
                     Zeros(FREQ_SIZE),
                     Arr([i \in 0..(NB_BANDS - 1) |-> FSqrt(FDiv(ex[i], PlusTiny(new_e[i])))])))
      \* denoise.rs:276-277
      mixed(x1) == renormalised(x1, compute_band_corr(x1, x1))
      \* denoise.rs:272-274
      interpolated(rf) ==
        mixed(Arr([i \in 0..(FREQ_SIZE - 1) |->
                     Cplx(x[i].re + FMul(rf[i], p[i].re), x[i].im + FMul(rf[i], p[i].im))]))
  IN \* denoise.rs:258-271
     interpolated(interp_band_gain(
       Zeros(FREQ_SIZE),
       Arr([i \in 0..(NB_BANDS - 1) |->
              LET exp_sq == FMul(exp[i], exp[i])
                  g_sq == FMul(g[i], g[i])
                  r0 == IF exp[i] > g[i] THEN Q
                        ELSE FDiv(FMul(exp_sq, Q - g_sq), 1 + FMul(g_sq, Q - exp_sq))
              IN FMul(FSqrt(FMin(Q, FMax(0, r0))), FSqrt(FDiv(ex[i], PlusTiny(ep[i]))))])))

(* denoise.rs:330-333, with the RNN gain stored before it is floored       *)
gain_floor_StoreRaw(g, lastg) == g

(* denoise.rs:330-333: g[i] = g[i].max(0.6 * lastg[i]); lastg[i] = g[i]    *)
gain_floor(g, lastg) == Arr([i \in 0..(NB_BANDS - 1) |-> FMax(g[i], FMul(600, lastg[i]))])

(* denoise.rs:230-238 with out[i] = x[i]: the saved half is not added      *)
frame_synthesis_NoOverlap(c, state, out, y) ==
  LET done == FMin(FRAME_SIZE, ALen(out))
      overlapped(x) ==
        [state |-> [state EXCEPT !.synthesis_mem =
                       Arr([i \in 0..(FRAME_SIZE - 1) |->
                              IF i < done THEN x[FRAME_SIZE + i] ELSE state.synthesis_mem[i]])],
         out |-> Arr([i \in DOMAIN out |-> IF i < done THEN x[i] ELSE out[i]]),
         x |-> x,
         panic |-> ALen(out) < FRAME_SIZE]
  IN overlapped(apply_window_in_place(c, inverse_transform(y)))

(* denoise.rs:230-238.  out is the caller's slice; the loop over           *)
(* 0..FRAME_SIZE panics at the first i that is no index of out.            *)
frame_synthesis(c, state, out, y) ==
  LET done == FMin(FRAME_SIZE, ALen(out))
      \* denoise.rs:234-237
      overlapped(x) ==
        [state |-> [state EXCEPT !.synthesis_mem =
                       Arr([i \in 0..(FRAME_SIZE - 1) |->
                              IF i < done THEN x[FRAME_SIZE + i] ELSE state.synthesis_mem[i]])],
         out |-> Arr([i \in DOMAIN out |->
                        IF i < done THEN x[i] + state.synthesis_mem[i] ELSE out[i]]),
         x |-> x,
         panic |-> ALen(out) < FRAME_SIZE]
  IN \* denoise.rs:231-233
     overlapped(apply_window_in_place(c, inverse_transform(y)))

(* The tables common() returns (lib.rs:507-536)                            *)
CommonTables == [window |-> common_window, dct_table |-> common_dct_table, fft |-> WINDOW_SIZE]

(* denoise.rs:320-338: the branch of a frame that is not silent            *)
denoise_spectrum(weights, state, cff) ==
  LET \* denoise.rs:335-337
      applied(rnn, x1, g, gf) ==
        [state |-> [state EXCEPT !.rnn = rnn.rnn, !.lastg = g],
         x_freq |-> Arr([i \in 0..(FREQ_SIZE - 1) |-> CScale(x1[i], gf[i])]),
         x_pitch |-> x1, g_rnn |-> rnn.g, gf |-> gf, vad_prob |-> rnn.vad_prob]
      \* denoise.rs:334
      floored(rnn, x1, g) ==
        applied(rnn, x1, g, interp_band_gain(Arr([i \in 0..(FREQ_SIZE - 1) |-> Q]), g))
      \* denoise.rs:322-333
      inferred(rnn) ==
        floored(rnn, pitch_filter(cff.x, cff.p, cff.ex, cff.ep, cff.exp, rnn.g),
                gain_floor(rnn.g, state.lastg))
  IN \* denoise.rs:321
     inferred(compute_rnn(weights, state.rnn, cff.features))

(* denoise.rs:297-301 and 320: what a silent frame leaves as declared, x   *)
(* as analysed, gf all ones, g all zero, vad_prob 0                        *)
silent_spectrum(state, cff) ==
  [state |-> state, x_freq |-> cff.x, x_pitch |-> cff.x, g_rnn |-> Zeros(NB_BANDS),
   gf |-> Arr([i \in 0..(FREQ_SIZE - 1) |-> Q]), vad_prob |-> 0]

(* denoise.rs:289-342.  The result holds the state after the call, the     *)
(* caller's output slice, the value returned (None after a panic) and,     *)
(* for the claims, the intermediate values of the call.                    *)
process_frame(c, weights, state, output, input) ==
  LET \* denoise.rs:341: vad_prob[0]
      returned(x_time, cff, dn, fs) ==
        [state |-> fs.state,
         output |-> fs.out,
         ret |-> IF fs.panic THEN None ELSE Some(dn.vad_prob),
         panic |-> IF fs.panic THEN "frame_synthesis" ELSE "no",
         seen |-> Some([silence |-> cff.silence, x_time |-> x_time, x |-> cff.x,
                        x_pitch |-> dn.x_pitch, x_freq |-> dn.x_freq, gf |-> dn.gf,
                        g_rnn |-> dn.g_rnn,
                        rnn_called |-> cff.silence = 0, e |-> cff.e, p_start |-> cff.p_start,
                        pitch_t |-> cff.pitch_t, pitch_offset |-> cff.pitch_offset,
                        pitch_xcorr |-> cff.pitch_xcorr, pitch_trace |-> cff.pitch_trace,
                        features |-> cff.features, ceps |-> cff.ceps,
                        analysis_buf |-> cff.buf, synthesis_x |-> fs.x,
                        heap |-> cff.heap])]
      \* denoise.rs:340
      denoised(x_time, cff, dn) ==
        returned(x_time, cff, dn, frame_synthesis(c, dn.state, output, dn.x_freq))
      \* denoise.rs:320-338: if silence == 0 { ... }
      analysed(x_time, cff) ==
        denoised(x_time, cff,
                 IF cff.silence = 0 THEN denoise_spectrum(weights, cff.state, cff)
                 ELSE silent_spectrum(cff.state, cff))
      \* denoise.rs:310-319
      high_passed(bq) ==
        IF bq.panic
        THEN [state |-> [state EXCEPT !.mem_hp_x = bq.mem], output |-> output, ret |-> None,
              panic |-> "biquad", seen |-> None]
        ELSE analysed(bq.y,
                      compute_frame_features(c, [state EXCEPT !.mem_hp_x = bq.mem], bq.y))
  IN \* denoise.rs:303-309
     high_passed(biquad(Zeros(FRAME_SIZE), state.mem_hp_x, input))

(* denoise.rs:55-68 *)
DenoiseState_new ==
  [analysis_mem |-> Zeros(FRAME_SIZE),
   cepstral_mem |-> [i \in 0..(CEPS_MEM - 1) |-> Zeros(NB_BANDS)],
   mem_id |-> 0,
   synthesis_mem |-> Zeros(FRAME_SIZE),
   pitch_buf |-> Zeros(PITCH_BUF_SIZE),
   last_gain |-> 0,
   last_period |-> 0,
   mem_hp_x |-> Zeros(2),
   lastg |-> Zeros(NB_BANDS),
   rnn |-> RnnState_new]

(* ---------------------------------------------------------------------- *)
(* Streams: DenoiseStates and the frames fed to them                       *)
(* ---------------------------------------------------------------------- *)
NStreams == 2
Streams == 1..NStreams

(* The weight table of the RNN (model.rs is not among the sources).        *)
RnnWeights == [recur |-> 500, input |-> 2, bias |-> 500, slope |-> 300]

(* The frames: silence, a faint hum below the silence gate, and two click  *)
(* trains.                                                                 *)
FrameIds == {"zero", "hum", "clicks60", "clicks59"}
Frame(f) ==
  [i \in 0..(FRAME_SIZE - 1) |->
     IF f = "zero" THEN 0
     ELSE IF f = "hum" THEN (IF i % 4 < 2 THEN 6 ELSE -6)
     ELSE IF f = "clicks60" THEN (IF i % 60 = 0 THEN 2 * Q ELSE 0)
     ELSE (IF i % 59 = 0 THEN 3 * Q ELSE 0)]

(* The slice of n samples a caller cuts from (or pads around) a frame.     *)
InputSlice(f, n) == Arr([i \in 0..(n - 1) |-> Frame(f)[i % FRAME_SIZE]])

StreamsInit ==
  /\ ds = [s \in Streams |-> DenoiseState_new]
  /\ hist = [s \in Streams |-> <<>>]
  /\ outbuf = [s \in Streams |-> Zeros(FRAME_SIZE)]
  /\ outs = [s \in Streams |-> <<>>]
  /\ ret = [s \in Streams |-> None]
  /\ panic = [s \in Streams |-> "no"]
  /\ seen = [s \in Streams |-> None]

BandIdle ==
  /\ band_e = [b \in 0..(NB_BANDS - 1) |-> 0]
  /\ band_x = [idx \in 0..(FREQ_SIZE - 1) |-> CZero]
  /\ band_out = [b \in 0..(NB_BANDS - 1) |-> 0]
  /\ band_pc = "idle"

ThreadsIdle ==
  /\ tpc = [t \in Threads |-> "idle"]
  /\ tlocal = [t \in Threads |-> CommonLocalInit]
  /\ tret = [t \in Threads |-> None]
  /\ tcalls = [t \in Threads |-> 0]
  /\ published = <<>>

(* A whole call of common() (lib.rs:507-536) made from stream s.           *)
common(cell, s) ==
  IF OnceCell_get(cell) = None THEN OnceCell_set(cell, CommonState(CommonTables, s)).cell
  ELSE cell

(* A call that works on the state of stream 1, whichever stream makes it.  *)
stream_state_Shared(states, s) == states[1]

(* denoise.rs:289: the call works on the DenoiseState it is handed         *)
stream_state(states, s) == states[s]

(* state.process_frame(&mut output[..nout], &input[..nin]) on stream s,    *)
(* the input cut from frame f.  A panic ends the process.                  *)
ProcessFrame(s, f, nin, nout) ==
  /\ \A u \in Streams : panic[u] = "no"
  /\ \E cell \in {common(COMMON, s)} :
       \E r \in {process_frame(Unwrap(cell), RnnWeights, stream_state(ds, s), Zeros(nout),
                               InputSlice(f, nin))} :
         /\ COMMON' = cell
         /\ ds' = [ds EXCEPT ![s] = r.state]
         /\ outbuf' = [outbuf EXCEPT ![s] = r.output]
         /\ outs' = [outs EXCEPT ![s] =
                       Append(@, [output |-> r.output, ret |-> r.ret,
                                  ceps |-> IF r.seen = None THEN None ELSE Unwrap(r.seen).ceps])]
         /\ ret' = [ret EXCEPT ![s] = r.ret]
         /\ panic' = [panic EXCEPT ![s] = r.panic]
         /\ seen' = [seen EXCEPT ![s] = r.seen]
  /\ hist' = [hist EXCEPT ![s] = Append(@, <<f, nin, nout>>)]
  /\ UNCHANGED <<band_vars, thread_vars>>

(* ---------------------------------------------------------------------- *)
(* Spec: one stream fed whole frames.  A run of frames follows one of the  *)
(* programmes: frames of one kind, then frames of another.                 *)
(* ---------------------------------------------------------------------- *)
MaxFrames == 9
Programme(a, k, b) == [i \in 1..MaxFrames |-> IF i <= k THEN a ELSE b]
Programmes ==
  {Programme(a, MaxFrames, a) : a \in FrameIds}
    \cup {Programme("clicks60", 1, "zero"), Programme("clicks60", 2, "hum"),
          Programme("clicks59", 1, "hum"), Programme("zero", 1, "clicks60"),
          Programme("hum", 2, "clicks59"), Programme("clicks60", 3, "clicks59"),
          Programme("clicks59", 2, "clicks60"), Programme("clicks59", 4, "zero"),
          Programme("clicks60", 3, "hum"), Programme("hum", 1, "clicks60")}

Follows(h, pr) == \A i \in 1..Len(h) : h[i][1] = pr[i]

Init ==
  /\ StreamsInit
  /\ ThreadsIdle
  /\ COMMON = None
  /\ BandIdle

Feed ==
  \E f \in FrameIds :
    /\ Len(hist[1]) < MaxFrames
    /\ \E pr \in Programmes : Follows(Append(hist[1], <<f, FRAME_SIZE, FRAME_SIZE>>), pr)
    /\ ProcessFrame(1, f, FRAME_SIZE, FRAME_SIZE)

Next == Feed

Spec == Init /\ [][Next]_vars

(* ---------------------------------------------------------------------- *)
(* SpecLen: one stream; the caller passes slices of any of three lengths.  *)
(* ---------------------------------------------------------------------- *)
MaxLenCalls == 2
SliceLens == {FRAME_SIZE - 1, FRAME_SIZE, FRAME_SIZE + 1}
LenFrames == {"zero", "clicks60"}

InitLen ==
  /\ StreamsInit
  /\ ThreadsIdle
  /\ COMMON = None
  /\ BandIdle

FeedLen ==
  \E f \in LenFrames, nin \in SliceLens, nout \in SliceLens :
    /\ Len(hist[1]) < MaxLenCalls
    /\ ProcessFrame(1, f, nin, nout)

SpecLen == InitLen /\ [][FeedLen]_vars

(* ---------------------------------------------------------------------- *)
(* SpecIso: two streams, each with a DenoiseState of its own, their calls  *)
(* interleaved in every order.                                             *)
(* ---------------------------------------------------------------------- *)
MaxIsoFrames == 2
IsoFrames == {"hum", "clicks60", "clicks59"}

InitIso ==
  /\ StreamsInit
  /\ ThreadsIdle
  /\ COMMON = None
  /\ BandIdle

(* The click train of period 59 is fed only as a run of one frame.         *)
IsoRun(h, f) ==
  /\ Len(h) < MaxIsoFrames
  /\ h # <<>> => (f # "clicks59" /\ h[1][1] # "clicks59")

FeedIso ==
  \E s \in Streams, f \in IsoFrames :
    /\ IsoRun(hist[s], f)
    /\ ProcessFrame(s, f, FRAME_SIZE, FRAME_SIZE)

SpecIso == InitIso /\ [][FeedIso]_vars

(* ---------------------------------------------------------------------- *)
(* Specification of the band operators: a band vector is drawn, then       *)
(* interp_band_gain and compute_band_corr are applied to it.               *)
(* ---------------------------------------------------------------------- *)
MaxBandVal == 3

BandConst(v) == [i \in 0..(NB_BANDS - 1) |-> v * Q]
BandUnit(k, v) == [i \in 0..(NB_BANDS - 1) |-> IF i = k THEN v * Q ELSE 0]
BandStep(k, v) == [i \in 0..(NB_BANDS - 1) |-> IF i >= k THEN v * Q ELSE Q]
BandVectors ==
  {BandConst(v) : v \in 0..MaxBandVal}
    \cup {BandUnit(k, v) : k \in 0..(NB_BANDS - 1), v \in 1..MaxBandVal}
    \cup {BandStep(k, v) : k \in {1, 11, 21}, v \in 2..MaxBandVal}

BandInit ==
  /\ band_e \in BandVectors
  /\ band_x = [idx \in 0..(FREQ_SIZE - 1) |-> CZero]
  /\ band_out = [b \in 0..(NB_BANDS - 1) |-> 0]
  /\ band_pc = "start"

BandInterp ==
  /\ band_pc = "start"
  /\ \E s \in {interp_band_gain([idx \in 0..(FREQ_SIZE - 1) |-> Q], band_e)} :
       band_x' = [idx \in 0..(FREQ_SIZE - 1) |-> Cplx(s[idx], 0)]
  /\ band_pc' = "interp"
  /\ UNCHANGED <<band_e, band_out>>
  /\ UNCHANGED <<common_vars, stream_vars>>

BandCorr ==
  /\ band_pc = "interp"
  /\ band_out' = compute_band_corr(band_x, band_x)
  /\ band_pc' = "corr"
  /\ UNCHANGED <<band_e, band_x>>
  /\ UNCHANGED <<common_vars, stream_vars>>

BandNext == BandInterp \/ BandCorr

InitBand == BandInit /\ CommonInit /\ StreamsInit
SpecBand == InitBand /\ [][BandNext]_vars

InitCommon == CommonInit /\ BandIdle /\ StreamsInit
SpecCommon == InitCommon /\ [][CommonNext]_vars

(* ---------------------------------------------------------------------- *)
(* Claims on the band operators (SpecBand)                                 *)
(* ---------------------------------------------------------------------- *)
AllBands == 0..(NB_BANDS - 1)
IsBandConst(c) == \A b \in AllBands : c[b] = c[0]

(* Twice the summed triangular weight that compute_band_corr gives band b: *)
(* band 0 collects (1 - frac) over its own 4 bins, doubled; an inner band  *)
(* collects frac over the band below and (1 - frac) over its own; band 21  *)
(* collects frac over band 20, doubled.                                    *)
BandWeight2(b) ==
  IF b = 0 THEN 2 * (band_size(0) + 1)
  ELSE IF b = NB_BANDS - 1 THEN 2 * (band_size(b - 1) - 1)
  ELSE band_size(b - 1) + band_size(b)

(* One unit of 1/Q for each fraction that is cut when it is formed.        *)
BandTol(b, vv) ==
  vv * 2 * ((IF b >= 1 THEN band_size(b - 1) ELSE 0)
            + (IF b <= NB_BANDS - 2 THEN band_size(b) ELSE 0))

(* C10 as stated: compute_band_corr(s, s) with s = interp_band_gain(c)     *)
(* gives back c in every band, an edge band possibly doubled.              *)
C10_LeftInverse ==
  band_pc = "corr" =>
    \A b \in AllBands :
      \/ FAbs(band_out[b] - band_e[b]) <= BandTol(b, MaxBandVal)
      \/ /\ b \in {0, NB_BANDS - 1}
         /\ FAbs(band_out[b] - 2 * band_e[b]) <= BandTol(b, MaxBandVal)

(* C10 amended: for a band-constant vector c = v, compute_band_corr(s, s)  *)
(* with s = interp_band_gain(c) is v * v times the summed triangular       *)
(* weight of the band (5 for band 0, half the sizes of the two adjoining   *)
(* bands for an inner band, 87 for band 21), up to the cut fractions.      *)
C10_WeightedSquare ==
  (band_pc = "corr" /\ IsBandConst(band_e)) =>
    \A b \in AllBands :
      LET vv == FMul(band_e[0], band_e[0])
      IN FAbs(2 * band_out[b] - vv * BandWeight2(b)) <= 2 * BandTol(b, vv \div Q)

C10_Witness ==
  /\ band_pc = "corr"
  /\ band_e = BandConst(2)
  /\ band_x[100].re = 2 * Q
  /\ band_out[0] = 4 * 5 * Q
  /\ band_out[1] = 4 * 4 * Q

(* ---------------------------------------------------------------------- *)
(* Claims on common() (SpecCommon)                                         *)
(* ---------------------------------------------------------------------- *)
(* C5: no call of common() panics; a call that returned handed out a fully *)
(* built CommonState, which is the value in the cell now (so the value is  *)
(* the same for every call and was not changed since it was handed out);   *)
(* and at most one COMMON.set ever stored a value.                         *)
C5_OnePublication ==
  /\ \A t \in Threads :
       /\ tpc[t] # "panic"
       /\ tret[t] # None =>
            /\ FullyBuilt(Unwrap(tret[t]))
            /\ tret[t] = COMMON
  /\ Len(published) <= 1
  /\ COMMON # None => FullyBuilt(Unwrap(COMMON))

(* Two threads raced on the first call: one built its own tables, lost the *)
(* set, and returned the other's value.                                    *)
C5_Witness ==
  \E t \in Threads :
    /\ tpc[t] = "done"
    /\ tlocal[t].fft = WINDOW_SIZE
    /\ tret[t] # None
    /\ Unwrap(tret[t]).built_by # t
    /\ Len(published) = 1

(* ---------------------------------------------------------------------- *)
(* Claims on process_frame (Spec)                                          *)
(* ---------------------------------------------------------------------- *)
AllBins == 0..(FREQ_SIZE - 1)

(* The call just made on stream 1 ran to its end.                          *)
Called == hist'[1] # hist[1] /\ seen'[1] # None
(* The frame the last call on stream 1 was given.                          *)
LastFrame == Frame(hist[1][Len(hist[1])][1])

(* C1: a call whose total band energy e is below 0.04 leaves cepstral_mem, *)
(* mem_id, lastg and the RNN state as they were, does not call the RNN,    *)
(* hands the analysed spectrum X to synthesis with gain 1 on every bin,    *)
(* and returns the VAD probability 0.                                      *)
C1_SilenceBranchStep ==
  (Called /\ Unwrap(seen'[1]).e < (4 * Q) \div 100) =>
    /\ ds'[1].cepstral_mem = ds[1].cepstral_mem
    /\ ds'[1].mem_id = ds[1].mem_id
    /\ ds'[1].lastg = ds[1].lastg
    /\ ds'[1].rnn = ds[1].rnn
    /\ ~Unwrap(seen'[1]).rnn_called
    /\ \A i \in AllBins : Unwrap(seen'[1]).gf[i] = Q
    /\ Unwrap(seen'[1]).x_freq = Unwrap(seen'[1]).x
    /\ ret'[1] = Some(0)
C1_SilenceBranch == [][C1_SilenceBranchStep]_vars

(* A silent frame that followed frames that were not: the memories the     *)
(* branch leaves alone hold values, and X is not zero.                     *)
C1_Witness ==
  /\ seen[1] # None
  /\ Unwrap(seen[1]).silence = 1
  /\ ret[1] = Some(0)
  /\ ds[1].mem_id > 0
  /\ \E b \in AllBands : ds[1].lastg[b] > 0
  /\ ds[1].rnn # RnnState_new
  /\ \E i \in AllBins : Unwrap(seen[1]).x_freq[i] # CZero

(* C2: at every call boundary mem_id is in 0..7, and so are the indices    *)
(* into cepstral_mem derived from it (mem_id - 1 and mem_id - 2, wrapped). *)
C2_MemIdInRange ==
  \A s \in Streams :
    /\ ds[s].mem_id \in 0..(CEPS_MEM - 1)
    /\ ceps_idx(ds[s].mem_id, 1) \in 0..(CEPS_MEM - 1)
    /\ ceps_idx(ds[s].mem_id, 2) \in 0..(CEPS_MEM - 1)

(* The ring was filled to its last slot and mem_id wrapped to 0.           *)
C2_Witness ==
  /\ Len(hist[1]) >= CEPS_MEM
  /\ ds[1].mem_id = 0
  /\ ds[1].cepstral_mem[CEPS_MEM - 1] # Zeros(NB_BANDS)

(* C3: over every call and in every band lastg is at least 0.6 times what  *)
(* it was, silent frame or not; on a frame that is not silent lastg is     *)
(* max(RNN gain, 0.6 * previous lastg), and that is the gain applied: gf   *)
(* interpolates it and the spectrum is scaled by gf.                       *)
C3_GainFloorStep ==
  Called =>
    /\ \A b \in AllBands : ds'[1].lastg[b] >= FMul(600, ds[1].lastg[b])
    /\ Unwrap(seen'[1]).silence = 0 =>
         /\ \A b \in AllBands :
              ds'[1].lastg[b] = FMax(Unwrap(seen'[1]).g_rnn[b], FMul(600, ds[1].lastg[b]))
         /\ Unwrap(seen'[1]).gf = interp_band_gain(Zeros(FREQ_SIZE), ds'[1].lastg)
         /\ \A i \in AllBins :
              Unwrap(seen'[1]).x_freq[i]
                = CScale(Unwrap(seen'[1]).x_pitch[i], Unwrap(seen'[1]).gf[i])
C3_GainFloor == [][C3_GainFloorStep]_vars

(* A frame on which the floor decided: the RNN asked for less than the     *)
(* gain that was stored.                                                   *)
C3_Witness ==
  /\ seen[1] # None
  /\ Unwrap(seen[1]).silence = 0
  /\ \E b \in AllBands :
       /\ Unwrap(seen[1]).g_rnn[b] < ds[1].lastg[b]
       /\ ds[1].lastg[b] > 0

(* C7: a fresh state fed only all-zero frames: from the second frame on    *)
(* the output is all zero, the VAD probability is below 0.1 and the frame  *)
(* takes the silence branch; analysis_mem, synthesis_mem, pitch_buf and    *)
(* the biquad memory are all zero after every frame.                       *)
C7_ZeroStream ==
  (hist[1] # <<>> /\ \A k \in 1..Len(hist[1]) : hist[1][k][1] = "zero") =>
    /\ Len(hist[1]) >= 2 =>
         /\ outbuf[1] = Zeros(FRAME_SIZE)
         /\ ret[1] # None
         /\ Unwrap(ret[1]) < Q \div 10
         /\ Unwrap(seen[1]).silence = 1
    /\ ds[1].analysis_mem = Zeros(FRAME_SIZE)
    /\ ds[1].synthesis_mem = Zeros(FRAME_SIZE)
    /\ ds[1].pitch_buf = Zeros(PITCH_BUF_SIZE)
    /\ ds[1].mem_hp_x = Zeros(2)

C7_Witness ==
  /\ Len(hist[1]) >= 3
  /\ \A k \in 1..Len(hist[1]) : hist[1][k][1] = "zero"
  /\ Unwrap(seen[1]).silence = 1
  /\ ret[1] = Some(0)
  /\ outbuf[1] = Zeros(FRAME_SIZE)

(* C8: after every completed call last_period is in 60..768, and the       *)
(* window read from pitch_buf, which starts at PITCH_BUF_SIZE -            *)
(* WINDOW_SIZE - last_period, lies inside the buffer.                      *)
C8_PeriodInRange ==
  \A s \in Streams :
    (hist[s] # <<>> /\ panic[s] = "no") =>
      /\ ds[s].last_period \in PITCH_MIN_PERIOD..PITCH_MAX_PERIOD
      /\ Unwrap(seen[s]).p_start = PITCH_BUF_SIZE - WINDOW_SIZE - ds[s].last_period
      /\ Unwrap(seen[s]).p_start >= 0
      /\ Unwrap(seen[s]).p_start + WINDOW_SIZE <= PITCH_BUF_SIZE

(* The lag found was below the shortest period and was raised to it.       *)
C8_Witness ==
  /\ seen[1] # None
  /\ 2 * Unwrap(seen[1]).pitch_t + Unwrap(seen[1]).pitch_offset < PITCH_MIN_PERIOD
  /\ ds[1].last_period = PITCH_MIN_PERIOD

(* C9 as stated: every call shifts pitch_buf left by 480 samples and puts  *)
(* the caller's raw input samples at its end.                              *)
C9_RawInputStep ==
  Called =>
    \A i \in 0..(PITCH_BUF_SIZE - 1) :
      ds'[1].pitch_buf[i]
        = IF i < PITCH_BUF_SIZE - FRAME_SIZE THEN ds[1].pitch_buf[i + FRAME_SIZE]
          ELSE Frame(hist'[1][Len(hist'[1])][1])[i - (PITCH_BUF_SIZE - FRAME_SIZE)]
C9_RawInput == [][C9_RawInputStep]_vars

(* C9 amended: every call shifts pitch_buf left by 480 samples and puts    *)
(* at its end the 480 samples the biquad high-pass filter made of the      *)
(* input (x_time, filtered with the memory the filter had before the call).*)
C9_HighPassedStep ==
  Called =>
    /\ Unwrap(seen'[1]).x_time
         = biquad(Zeros(FRAME_SIZE), ds[1].mem_hp_x, Frame(hist'[1][Len(hist'[1])][1])).y
    /\ \A i \in 0..(PITCH_BUF_SIZE - 1) :
         ds'[1].pitch_buf[i]
           = IF i < PITCH_BUF_SIZE - FRAME_SIZE THEN ds[1].pitch_buf[i + FRAME_SIZE]
             ELSE Unwrap(seen'[1]).x_time[i - (PITCH_BUF_SIZE - FRAME_SIZE)]
C9_HighPassed == [][C9_HighPassedStep]_vars

(* Two frames in: the older one has moved down, and what lies at the end   *)
(* is the filtered frame, which is not the frame the caller passed.        *)
C9_Witness ==
  /\ Len(hist[1]) >= 2
  /\ seen[1] # None
  /\ \E i \in 0..(FRAME_SIZE - 1) :
       /\ ds[1].pitch_buf[PITCH_BUF_SIZE - FRAME_SIZE + i] = Unwrap(seen[1]).x_time[i]
       /\ Unwrap(seen[1]).x_time[i] # LastFrame[i]
  /\ \E i \in 0..(FRAME_SIZE - 1) : ds[1].pitch_buf[PITCH_BUF_SIZE - 2 * FRAME_SIZE + i] # 0

(* ---------------------------------------------------------------------- *)
(* Claims on slice lengths (SpecLen)                                       *)
(* ---------------------------------------------------------------------- *)
(* The last call on stream 1: <<frame, input length, output length>>.      *)
LastCall == hist[1][Len(hist[1])]

(* C4: a call whose input slice or output slice is not exactly 480 long    *)
(* panics; it does not process the frame and return a VAD value.           *)
C4_WrongLengthPanics ==
  (hist[1] # <<>> /\ (LastCall[2] # FRAME_SIZE \/ LastCall[3] # FRAME_SIZE)) =>
    /\ panic[1] # "no"
    /\ ret[1] = None

(* ---------------------------------------------------------------------- *)
(* Claims on two streams (SpecIso)                                         *)
(* ---------------------------------------------------------------------- *)
(* Streams that were fed the same frames up to the k-th gave the same k-th *)
(* output and value, and are in equal states if that is all they were fed. *)
SameInSameOut ==
  \A s \in Streams, u \in Streams :
    \A k \in 1..Len(hist[s]) :
      (k <= Len(hist[u]) /\ SubSeq(hist[s], 1, k) = SubSeq(hist[u], 1, k)) =>
        /\ outs[s][k] = outs[u][k]
        /\ (k = Len(hist[s]) /\ k = Len(hist[u])) => ds[s] = ds[u]

(* A call on one stream leaves every other stream as it was.               *)
OthersUntouched ==
  \A s \in Streams :
    hist'[s] # hist[s] =>
      \A u \in Streams \ {s} :
        /\ ds'[u] = ds[u]
        /\ outs'[u] = outs[u]
        /\ outbuf'[u] = outbuf[u]
        /\ ret'[u] = ret[u]

C11_NoHeapAlloc ==
  \A s \in Streams : seen[s] # None => Unwrap(seen[s]).heap = <<>>

(* ---------------------------------------------------------------------- *)
(* Claims on remove_doubling (Spec)                                        *)
(* ---------------------------------------------------------------------- *)
(* The offset the three correlations at lags t - 1, t, t + 1 call for.     *)
PseudoOffset(xc) ==
  IF xc[2] - xc[0] > FMul(700, xc[1] - xc[0]) THEN 1
  ELSE IF xc[0] - xc[2] > FMul(700, xc[1] - xc[2]) THEN -1
  ELSE 0

(* C12 as stated: the period remove_doubling returns is                    *)
(* max(init_min_period, 2 * t - offset), offset being the                  *)
(* pseudo-interpolation offset of the three correlations around t.         *)
C12_OffsetSubtracted ==
  \A s \in Streams :
    seen[s] # None =>
      /\ Unwrap(seen[s]).pitch_offset = PseudoOffset(Unwrap(seen[s]).pitch_xcorr)
      /\ ds[s].last_period
           = FMax(PITCH_MIN_PERIOD, 2 * Unwrap(seen[s]).pitch_t - Unwrap(seen[s]).pitch_offset)

(* C12 amended: the period remove_doubling returns is                      *)
(* max(init_min_period, 2 * t + offset): the offset, -1, 0 or +1 by the    *)
(* rule above, is added to 2 * t (pitch_search subtracts its own).         *)
C12_OffsetAdded ==
  \A s \in Streams :
    seen[s] # None =>
      /\ Unwrap(seen[s]).pitch_offset = PseudoOffset(Unwrap(seen[s]).pitch_xcorr)
      /\ Unwrap(seen[s]).pitch_offset \in {-1, 0, 1}
      /\ ds[s].last_period
           = FMax(PITCH_MIN_PERIOD, 2 * Unwrap(seen[s]).pitch_t + Unwrap(seen[s]).pitch_offset)

(* The correlation at lag t - 1 exceeded the one at t + 1: the offset is   *)
(* -1 and the period, above the floor, is 2 * t - 1.                       *)
C12_Witness ==
  /\ seen[1] # None
  /\ Unwrap(seen[1]).pitch_offset = -1
  /\ Unwrap(seen[1]).pitch_xcorr[0] > Unwrap(seen[1]).pitch_xcorr[2]
  /\ ds[1].last_period = 2 * Unwrap(seen[1]).pitch_t - 1
  /\ ds[1].last_period > PITCH_MIN_PERIOD

(* ---------------------------------------------------------------------- *)
(* Claims on the cepstral ring (Spec)                                      *)
(* ---------------------------------------------------------------------- *)
IsVoiced(o) == o.ceps # None
(* The cepstra of the calls on stream s that were not silent, oldest first *)
Cepstra(s) == SelectSeq(outs[s], IsVoiced)
(* The cepstrum of the j-th most recent such call (j = 0: the last one),   *)
(* zeros where there were fewer.                                           *)
RecentCeps(s, j) ==
  IF j < Len(Cepstra(s)) THEN Unwrap(Cepstra(s)[Len(Cepstra(s)) - j].ceps) ELSE Zeros(NB_BANDS)

(* After n frames that were not silent: mem_id is n mod 8, slot            *)
(* (mem_id - 1 - j) mod 8 holds the cepstrum of the j-th most recent one,  *)
(* zeros where n <= j; and the delta features of a frame that was not      *)
(* silent are made of its cepstrum and the two before it.                  *)
RingHolds ==
  \A s \in Streams :
    /\ ds[s].mem_id = Len(Cepstra(s)) % CEPS_MEM
    /\ \A j \in 0..(CEPS_MEM - 1) :
         ds[s].cepstral_mem[(ds[s].mem_id + 2 * CEPS_MEM - 1 - j) % CEPS_MEM] = RecentCeps(s, j)
    /\ (seen[s] # None /\ Unwrap(seen[s]).silence = 0) =>
         \A i \in 0..(NB_DELTA_CEPS - 1) :
           /\ Unwrap(seen[s]).features[i]
                = RecentCeps(s, 0)[i] + RecentCeps(s, 1)[i] + RecentCeps(s, 2)[i]
           /\ Unwrap(seen[s]).features[NB_BANDS + i] = RecentCeps(s, 0)[i] - RecentCeps(s, 2)[i]
           /\ Unwrap(seen[s]).features[NB_BANDS + NB_DELTA_CEPS + i]
                = RecentCeps(s, 0)[i] - 2 * RecentCeps(s, 1)[i] + RecentCeps(s, 2)[i]

(* A frame that is not silent overwrites slot mem_id and no other; a       *)
(* silent frame leaves the ring and mem_id as they were.                   *)
RingStep ==
  Called =>
    IF Unwrap(seen'[1]).silence = 0
    THEN \A k \in 0..(CEPS_MEM - 1) :
           ds'[1].cepstral_mem[k]
             = IF k = ds[1].mem_id THEN Unwrap(Unwrap(seen'[1]).ceps) ELSE ds[1].cepstral_mem[k]
    ELSE ds'[1].cepstral_mem = ds[1].cepstral_mem /\ ds'[1].mem_id = ds[1].mem_id

OverlapHolds(prev, cur, st, out) ==
  \A i \in 0..(FRAME_SIZE - 1) :
    /\ out[i] = cur.synthesis_x[i]
                 + (IF prev = None THEN 0 ELSE Unwrap(prev).synthesis_x[FRAME_SIZE + i])
    /\ st.synthesis_mem[i] = cur.synthesis_x[FRAME_SIZE + i]
    /\ st.analysis_mem[i] = cur.x_time[i]
    /\ cur.analysis_buf[i] = (IF prev = None THEN 0 ELSE Unwrap(prev).x_time[i])
    /\ cur.analysis_buf[FRAME_SIZE + i] = cur.x_time[i]

(* C14: in every call, silent or not, output sample i is sample i of the   *)
(* call's windowed inverse transform plus sample 480 + i of that of the    *)
(* call before (zero in the first call); synthesis_mem is left holding     *)
(* samples 480..959 of this call's; analysis_mem is left holding the       *)
(* high-passed frame, and the analysis window is the frame of the call     *)
(* before followed by this one.                                            *)
C14_OverlapAddStep ==
  Called =>
    /\ \E c \in COMMON', y \in {Unwrap(seen'[1]).x_freq} :
         \E x \in {inverse_transform(y)} :
           Unwrap(seen'[1]).synthesis_x = apply_window_in_place(c, x)
    /\ OverlapHolds(seen[1], Unwrap(seen'[1]), ds'[1], outbuf'[1])
C14_OverlapAdd == [][C14_OverlapAddStep]_vars

(* A later call in which both halves count: some output sample is made of  *)
(* a sample of this call and a saved sample of the call before, neither    *)
(* zero, and the analysis window starts with a frame that was not zero.    *)
C14_Witness ==
  /\ Len(hist[1]) >= 2
  /\ seen[1] # None
  /\ \E i \in 0..(FRAME_SIZE - 1) :
       /\ Unwrap(seen[1]).synthesis_x[i] # 0
       /\ outbuf[1][i] # Unwrap(seen[1]).synthesis_x[i]
  /\ \E i \in 0..(FRAME_SIZE - 1) : Unwrap(seen[1]).analysis_buf[i] # 0
  /\ \E i \in 0..(FRAME_SIZE - 1) : ds[1].synthesis_mem[i] # 0

(* ---------------------------------------------------------------------- *)
(* Claims on the interpolated gains (Spec)                                 *)
(* ---------------------------------------------------------------------- *)
(* The first bin above the last band edge: EBAND_5MS[21] * 4 = 400.        *)
TopEdge == EBAND_5MS[NB_BANDS - 1] * (2 ^ FRAME_SIZE_SHIFT)
(* The bands whose bins idx is one of.                                     *)
BandsOfBin(idx) ==
  {i \in 0..(NB_BANDS - 2) :
     /\ EBAND_5MS[i] * (2 ^ FRAME_SIZE_SHIFT) <= idx
     /\ idx < EBAND_5MS[i + 1] * (2 ^ FRAME_SIZE_SHIFT)}
(* (1 - frac) * g[i] + frac * g[i + 1], frac = (idx - EBAND_5MS[i] * 4) /  *)
(* band_size                                                               *)
InterpAt(g, i, idx) ==
  FMul(Q - FDiv((idx - EBAND_5MS[i] * (2 ^ FRAME_SIZE_SHIFT)) * Q,
                (EBAND_5MS[i + 1] - EBAND_5MS[i]) * (2 ^ FRAME_SIZE_SHIFT) * Q), g[i])
  + FMul(FDiv((idx - EBAND_5MS[i] * (2 ^ FRAME_SIZE_SHIFT)) * Q,
              (EBAND_5MS[i + 1] - EBAND_5MS[i]) * (2 ^ FRAME_SIZE_SHIFT) * Q), g[i + 1])

GainBins(v, g) ==
  IF v.silence = 0
  THEN \A idx \in AllBins :
         IF idx < TopEdge
         THEN /\ Cardinality(BandsOfBin(idx)) = 1
              /\ \A i \in BandsOfBin(idx) : v.gf[idx] = InterpAt(g, i, idx)
         ELSE /\ v.gf[idx] = 0
              /\ v.x_freq[idx] = CZero
  ELSE \A idx \in AllBins :
         /\ v.gf[idx] = Q
         /\ v.x_freq[idx] = v.x[idx]

(* C15: interp_band_gain writes all 481 bins: a bin below 400 lies in one  *)
(* band i and gets (1 - frac) * g[i] + frac * g[i + 1]; the bins 400..480  *)
(* are set to zero whatever was there and whatever the band gains are.  So *)
(* the spectrum of a frame that is not silent goes to synthesis with bins  *)
(* 400..480 zero, and that of a silent frame goes unchanged, its gain 1.   *)
C15_TopBinsZero ==
  \A s \in Streams : seen[s] # None => GainBins(Unwrap(seen[s]), ds[s].lastg)

(* A frame that was not silent and whose analysed spectrum had energy      *)
(* above the last band edge: the gain there is 0 (it was 1 before the      *)
(* call of interp_band_gain) and below the edge it is not.                 *)
C15_Witness ==
  /\ seen[1] # None
  /\ Unwrap(seen[1]).silence = 0
  /\ \E idx \in TopEdge..(FREQ_SIZE - 1) :
       /\ Unwrap(seen[1]).x[idx] # CZero
       /\ Unwrap(seen[1]).gf[idx] = 0
       /\ Unwrap(seen[1]).x_freq[idx] = CZero
  /\ Unwrap(seen[1]).gf[TopEdge - 1] > 0
  /\ \E b \in AllBands : ds[1].lastg[b] # ds[1].lastg[0]

(* ---------------------------------------------------------------------- *)
(* Claims on the thresholds of remove_doubling (Spec)                      *)
(* ---------------------------------------------------------------------- *)
(* min_period inside remove_doubling, as compute_frame_features calls it   *)
HalfMinPeriod == PITCH_MIN_PERIOD \div 2

(* What was weighed in one pass of the loop over k took the first arm or   *)
(* the last, never max(0.5, 0.9 * g0 - cont).                              *)
TwoArms(w) ==
  /\ w.k \in 2..15
  /\ w.arm # 2
  /\ w.thresh = IF w.t1 < 3 * HalfMinPeriod THEN FMax(FMul(850, w.g0) - w.cont, 400)
                ELSE FMax(FMul(700, w.g0) - w.cont, 300)

(* C16: the middle arm of the threshold, max(0.5, 0.9 * g0 - cont), is     *)
(* never taken: a candidate t1 below 2 * min_period is below               *)
(* 3 * min_period and takes the first arm.  So for every candidate and     *)
(* every min_period, and in every pass of the loop of every call, the      *)
(* threshold is max(0.4, 0.85 * g0 - cont) or max(0.3, 0.7 * g0 - cont).   *)
C16_MiddleArmDead ==
  /\ \A t1 \in 0..(PITCH_MAX_PERIOD \div 2), mp \in 0..PITCH_MIN_PERIOD :
       doubling_branch(t1, mp) # 2
  /\ \A s \in Streams :
       seen[s] # None =>
         \A n \in 1..Len(Unwrap(seen[s]).pitch_trace) : TwoArms(Unwrap(seen[s]).pitch_trace[n])

(* A call whose loop weighed a candidate below 2 * min_period, for which   *)
(* the middle arm would have given another threshold, and one at or above  *)
(* 3 * min_period.                                                         *)
C16_Witness ==
  /\ seen[1] # None
  /\ \E n \in 1..Len(Unwrap(seen[1]).pitch_trace) :
       /\ Unwrap(seen[1]).pitch_trace[n].t1 < 2 * HalfMinPeriod
       /\ Unwrap(seen[1]).pitch_trace[n].arm = 1
       /\ Unwrap(seen[1]).pitch_trace[n].g0 > 0
       /\ Unwrap(seen[1]).pitch_trace[n].thresh
            # FMax(FMul(900, Unwrap(seen[1]).pitch_trace[n].g0)
                   - Unwrap(seen[1]).pitch_trace[n].cont, 500)
  /\ \E n \in 1..Len(Unwrap(seen[1]).pitch_trace) : Unwrap(seen[1]).pitch_trace[n].arm = 3

====
